---- MODULE Spec2Model ----
(***************************************************************************)
(* ngx-selection-list: a selection list container (SelectionListDirective) *)
(* over a live collection of list options (ListOptionDirective).           *)
(*                                                                         *)
(* Every lifecycle hook, public method, user interaction and timer expiry  *)
(* runs to completion on the single UI thread: EventEmitter and the rxjs   *)
(* pipeline deliver synchronously, so one action of the model is one such  *)
(* call together with every re-entrant handler it triggers.                *)
(***************************************************************************)
EXTENDS Integers, Sequences, FiniteSets, TLC

\* ------------------------------------------------------------------ bounds

\* Cap on the pending one-shot deselect timers of one option.
MaxTimers == 2

\* ------------------------------------------------------------ JS values

\* null and undefined; option values are the positive integers.
Null == 0
Undefined == 0 - 1

isNil(v) == v = Null \/ v = Undefined

isNonNil(v) == ~isNil(v)

DEFAULT_SELECTION_TIMEOUT == 200

\* A JS value that is either a scalar T or an array T[]: the argument of
\* select()/writeValue() and the result of the value getter.
Scalar(v) == [isArray |-> FALSE, items |-> <<v>>]

Array(s) == [isArray |-> TRUE, items |-> s]

\* ------------------------------------------------------------ sequences

RECURSIVE SeqFilter(_, _)
SeqFilter(s, keep) ==
    IF s = <<>> THEN <<>>
    ELSE (IF Head(s) \in keep THEN <<Head(s)>> ELSE <<>>) \o SeqFilter(Tail(s), keep)

Range(s) == {s[i] : i \in DOMAIN s}

Contains(s, v) == \E i \in DOMAIN s : s[i] = v

\* ------------------------------------------------------------- fixtures

\* The templates the container is rendered with: per option element its
\* [value] and selectionTimeout inputs.  The three plain options of the
\* test suite, and three smaller templates with a timed option, an option
\* with a nil value and two options with the same value.
Markups ==
    { << [value |-> 1, selectionTimeout |-> 0],
         [value |-> 2, selectionTimeout |-> 0],
         [value |-> 3, selectionTimeout |-> 0] >>,
      << [value |-> 1, selectionTimeout |-> 0],
         [value |-> 2, selectionTimeout |-> DEFAULT_SELECTION_TIMEOUT] >>,
      << [value |-> 1, selectionTimeout |-> 0],
         [value |-> Null, selectionTimeout |-> 0] >>,
      << [value |-> 1, selectionTimeout |-> 0],
         [value |-> 1, selectionTimeout |-> 0] >> }

VARIABLES
    markup,         \* the template: option id -> [value, selectionTimeout]
                    \* as bound when the option element is created
    multiple,       \* SelectionListDirective.multiple (input)
    listType,       \* SelectionListDirective.type (input)
    optTimeout,     \* ListOptionDirective._selectionTimeout, per option
    phase,          \* lifecycle of the container
    isContentReady, \* SelectionListDirective._isContentReady
    modelMultiple,  \* SelectionModel._multiple of the current _model
    model,          \* SelectionModel._selection, in insertion order
    options,        \* _listOptionDirectives, in document order
    subscribed,     \* options whose state$ the switchMap is subscribed to
    first,          \* tapOnce's one-shot latch of the discovery pipeline
    selected,       \* ListOptionDirective.selected, per option
    timers,         \* pending setTimeout(() => deselect()) per option
    optType,        \* ListOptionDirective.type, per option
    disabled,       \* ListOptionDirective.disabled, per option
    lastOp,         \* the kind of call the last step made
    lastEvents,     \* what that call emitted, in order
    tap             \* a stream under tapOnce, see TapSpec

vars == << markup, multiple, listType, optTimeout, isContentReady, phase,
           modelMultiple, model,
           options, subscribed, first, selected, timers, optType, disabled, lastOp, lastEvents, tap >>

Opts == DOMAIN markup

OptionValue(o) == markup[o].value

\* get selectionTimeout(); 0 also stands for a timeout that was never set
\* (undefined), which _update treats alike.
selectionTimeout(o) == optTimeout[o]

\* Values a caller may pass: every option value of the fixtures and nil.
ArgValues == {Null, 1, 2, 3}

\* Arguments of select()/writeValue(): a scalar, or an array of up to two
\* different non-nil values.
Args ==
    {Scalar(v) : v \in ArgValues}
    \cup {Array(<<>>)}
    \cup {Array(<<v>>) : v \in ArgValues \ {Null}}
    \cup {Array(<<p[1], p[2]>>) :
            p \in {q \in (ArgValues \ {Null}) \X (ArgValues \ {Null}) : q[1] # q[2]}}

\* ------------------------------------------------------------ run state
(***************************************************************************)
(* While one call runs, the mutable state is threaded through the          *)
(* operators below as a record S with the fields model, selected, timers,  *)
(* optType, options, subscribed and log (the events emitted so far), and   *)
(* the field ngDevMode: whether the call runs in a development build.      *)
(***************************************************************************)

Event(type, opt, sel, val) == [type |-> type, opt |-> opt, sel |-> sel, val |-> val]

\* ------------------------------------------------- SelectionModel (cdk)
\* The selection model of @angular/cdk/collections as the directive uses
\* it: a Set in insertion order, single or multiple, whose select and
\* deselect emit one change {added, removed} when something changed.

\* SelectionModel.isSelected
ModelIsSelected(selection, v) == Contains(selection, v)

\* SelectionListDirective.isSelected
isSelected(S, v) == IF isNil(v) THEN FALSE ELSE ModelIsSelected(S.model, v)

isMultipleSelection == modelMultiple

isSingleSelection == ~isMultipleSelection

\* Variant of the value getter that does not filter nil values.
ContainerValue_NoFilter(selection) ==
    IF isSingleSelection
    THEN Scalar(IF selection = <<>> THEN Undefined ELSE selection[1])
    ELSE IF selection # <<>> THEN Array(selection) ELSE Scalar(Undefined)

\* get value()
ContainerValue(selection) ==
    IF isSingleSelection
    THEN Scalar(IF selection = <<>> THEN Undefined ELSE selection[1])
    ELSE LET value == SelectSeq(selection, isNonNil)
         IN  IF selection # <<>> /\ Len(value) > 0
             THEN Array(value)
             ELSE Scalar(Undefined)

\* Variant of the subscriber that emits selected and deselected for every
\* value of the batch.
ChangedSubscriber_EmitsEach(S, added, removed) ==
    IF phase \in {"initialized", "ready"}
    THEN [S EXCEPT !.log =
            @ \o [i \in DOMAIN added |-> Event("selected", 0, TRUE, Scalar(added[i]))]
              \o [i \in DOMAIN removed |-> Event("deselected", 0, FALSE, Scalar(removed[i]))]
              \o <<Event("onChange", 0, FALSE, ContainerValue(S.model))>>]
    ELSE S

\* The subscriber of _model.changed set up by ngOnInit; it lives until
\* ngOnDestroy.  S already holds the changed model.
ChangedSubscriber(S, added, removed) ==
    IF phase \in {"initialized", "ready"}
    THEN [S EXCEPT !.log =
            @ \o (IF added # <<>>
                  THEN <<Event("selected", 0, TRUE, Scalar(added[1]))>> ELSE <<>>)
              \o (IF removed # <<>>
                  THEN <<Event("deselected", 0, FALSE, Scalar(removed[1]))>> ELSE <<>>)
              \o <<Event("onChange", 0, FALSE, ContainerValue(S.model))>>]
    ELSE S

\* SelectionModel._markSelected over the arguments of one select(...):
\* acc = [selection, added, removed].
RECURSIVE MarkSelected(_, _)
MarkSelected(acc, values) ==
    IF values = <<>> THEN acc
    ELSE LET v == Head(values)
             marked ==
                 IF ModelIsSelected(acc.selection, v) THEN acc
                 ELSE IF ~modelMultiple
                 THEN [selection |-> <<v>>,
                       added |-> Append(acc.added, v),
                       removed |-> acc.removed \o acc.selection]
                 ELSE [selection |-> Append(acc.selection, v),
                       added |-> Append(acc.added, v),
                       removed |-> acc.removed]
         IN  MarkSelected(marked, Tail(values))

\* Variant of _emitChangeEvent that emits after every call.
EmitChangeEvent_Always(S, acc) ==
    ChangedSubscriber([S EXCEPT !.model = acc.selection], acc.added, acc.removed)

\* SelectionModel._emitChangeEvent
EmitChangeEvent(S, acc) ==
    IF acc.added # <<>> \/ acc.removed # <<>>
    THEN ChangedSubscriber([S EXCEPT !.model = acc.selection], acc.added, acc.removed)
    ELSE S

\* SelectionModel.select(...values).  More than one value on a single
\* selection model throws before anything is marked in a development
\* build (the library's ngDevMode check); a production build has no such
\* check and marks the values one after the other.
ModelSelect(S, values) ==
    IF Len(values) > 1 /\ ~modelMultiple /\ S.ngDevMode THEN S
    ELSE EmitChangeEvent(S,
            MarkSelected([selection |-> S.model, added |-> <<>>, removed |-> <<>>],
                         values))

\* SelectionModel.deselect(value)
ModelDeselect(S, v) ==
    IF ModelIsSelected(S.model, v)
    THEN EmitChangeEvent(S,
            [selection |-> SelectSeq(S.model, LAMBDA x : x # v),
             added |-> <<>>, removed |-> <<v>>])
    ELSE S

\* ------------------------------------------------- ListOptionDirective

RECURSIVE Update(_, _, _)
RECURSIVE DeselectEach(_, _)

\* _getSelectedOptions
GetSelectedOptions(S) ==
    SelectSeq(S.options, LAMBDA o : isSelected(S, OptionValue(o)))

\* _resetOptions
ResetOptions(S) == DeselectEach(S, GetSelectedOptions(S))

\* Variant of StateHandler that records every emission as a selection.
StateHandler_AlwaysSelect(S, sel, v) ==
    IF isNil(v) THEN S ELSE ModelSelect(S, <<v>>)

\* Variant of StateHandler without the exclusivity reset of single
\* selection.
StateHandler_NoReset(S, sel, v) ==
    IF isNil(v) THEN S
    ELSE IF sel THEN ModelSelect(S, <<v>>) ELSE ModelDeselect(S, v)

\* Variant of StateHandler that records the value first and resets the
\* selected options afterwards.
StateHandler_RecordsFirst(S, sel, v) ==
    IF isNil(v) THEN S
    ELSE LET S1 == IF sel THEN ModelSelect(S, <<v>>) ELSE ModelDeselect(S, v)
         IN  IF isSingleSelection /\ sel /\ ~isSelected(S, v)
             THEN ResetOptions(S1)
             ELSE S1

\* The tap behind the switchMap in ngAfterContentInit: the reaction to one
\* {selected, value} emission of a subscribed option.
StateHandler(S, sel, v) ==
    IF isNil(v) THEN S
    ELSE LET S1 == IF isSingleSelection /\ sel /\ ~isSelected(S, v)
                   THEN ResetOptions(S)
                   ELSE S
         IN  IF sel THEN ModelSelect(S1, <<v>>) ELSE ModelDeselect(S1, v)

\* selectedChange.emit(selected): the option's own output, and through
\* state$ the container's handler when the container is subscribed.
SelectedChangeEmit(S, o, sel) ==
    LET S1 == [S EXCEPT !.log = Append(@, Event("option", o, sel, Scalar(OptionValue(o))))]
    IN  IF o \in S.subscribed THEN StateHandler(S1, sel, OptionValue(o)) ELSE S1

\* Variant of _update that emits every change, timed deselections too.
Update_EmitsAlways(S, o, sel) ==
    SelectedChangeEmit(
        [S EXCEPT !.selected[o] = sel,
                  !.timers[o] = IF selectionTimeout(o) # 0 /\ sel THEN @ + 1 ELSE @],
        o, sel)

\* Variant of _update in which a select replaces the pending timer
\* instead of adding one.
Update_RestartsTimer(S, o, sel) ==
    LET S1 == [S EXCEPT !.selected[o] = sel,
                        !.timers[o] = IF selectionTimeout(o) # 0 /\ sel THEN 1 ELSE @]
    IN  IF selectionTimeout(o) = 0 \/ (selectionTimeout(o) # 0 /\ sel)
        THEN SelectedChangeEmit(S1, o, sel)
        ELSE S1

\* Variant of _update that does nothing when the flag already has the
\* target value.
Update_CompareAndSet(S, o, sel) ==
    IF S.selected[o] = sel THEN S
    ELSE LET S1 == [S EXCEPT !.selected[o] = sel,
                             !.timers[o] = IF selectionTimeout(o) # 0 /\ sel
                                           THEN @ + 1 ELSE @]
         IN  IF selectionTimeout(o) = 0 \/ (selectionTimeout(o) # 0 /\ sel)
             THEN SelectedChangeEmit(S1, o, sel)
             ELSE S1

\* ListOptionDirective._update
Update(S, o, sel) ==
    LET S1 == [S EXCEPT !.selected[o] = sel,
                        !.timers[o] = IF selectionTimeout(o) # 0 /\ sel THEN @ + 1 ELSE @]
    IN  IF selectionTimeout(o) = 0 \/ (selectionTimeout(o) # 0 /\ sel)
        THEN SelectedChangeEmit(S1, o, sel)
        ELSE S1

\* ListOptionDirective.select / deselect / _toggleSelected
OptionSelect(S, o) == Update(S, o, TRUE)

OptionDeselect(S, o) == Update(S, o, FALSE)

\* Variant of _toggleSelected that always selects.
ToggleSelected_Select(S, o) == Update(S, o, TRUE)

ToggleSelected(S, o) == Update(S, o, ~S.selected[o])

\* get ariaSelected()
ariaSelected(S, o) == S.selected[o]

DeselectEach(S, os) ==
    IF os = <<>> THEN S ELSE DeselectEach(OptionDeselect(S, Head(os)), Tail(os))

RECURSIVE SelectEach(_, _)
SelectEach(S, os) ==
    IF os = <<>> THEN S ELSE SelectEach(OptionSelect(S, Head(os)), Tail(os))

\* ---------------------------------------------- SelectionListDirective

\* Variant of _getOptionByValue that falls back to the first option.
GetOptionByValue_FirstOption(S, v) ==
    LET found == SelectSeq(S.options, LAMBDA o : OptionValue(o) = v)
    IN  IF found # <<>> THEN <<found[1]>>
        ELSE IF S.options # <<>> THEN <<S.options[1]>> ELSE <<>>

\* _getOptionByValue: the first option with that value, as a sequence of
\* zero or one option.
GetOptionByValue(S, v) ==
    LET found == SelectSeq(S.options, LAMBDA o : OptionValue(o) = v)
    IN  IF found = <<>> THEN <<>> ELSE <<found[1]>>

\* select(value | value[])
RECURSIVE SelectValues(_, _)
SelectValues(S, values) ==
    IF values = <<>> THEN S
    ELSE SelectValues(SelectEach(S, GetOptionByValue(S, Head(values))), Tail(values))

ListSelect(S, arg) == SelectValues(S, arg.items)

\* deselect(value)
ListDeselect(S, v) == DeselectEach(S, GetOptionByValue(S, v))

\* selectAll(condition?) / deselectAll(condition?); the condition is the
\* set of options it accepts.
SelectAll(S, condition) == SelectEach(S, SeqFilter(S.options, condition))

DeselectAll(S, condition) == DeselectEach(S, SeqFilter(S.options, condition))

\* writeValue
WriteValueTo(S, arg) ==
    IF ~isContentReady
    THEN ModelSelect(S, arg.items)
    ELSE ListSelect(ResetOptions(S), arg)

\* Variant of _preselect that does not look at option.selected.
RECURSIVE PreselectEach_IgnoresFlag(_, _)
PreselectEach_IgnoresFlag(S, os) ==
    IF os = <<>> THEN S
    ELSE LET o == Head(os)
         IN  PreselectEach_IgnoresFlag(
                 IF ~isNil(OptionValue(o))
                 THEN ModelSelect(S, <<OptionValue(o)>>)
                 ELSE S,
                 Tail(os))

\* _preselect
RECURSIVE PreselectEach(_, _)
PreselectEach(S, os) ==
    IF os = <<>> THEN S
    ELSE LET o == Head(os)
         IN  PreselectEach(
                 IF ~isNil(OptionValue(o)) /\ S.selected[o]
                 THEN ModelSelect(S, <<OptionValue(o)>>)
                 ELSE S,
                 Tail(os))

Preselect(S, os) == IF S.model = <<>> THEN PreselectEach(S, os) ELSE S

\* SelectionListType
SelectionListTypes == {"listbox", "grid"}

\* _alignOptionTypes
AlignOptionTypes(S) ==
    [S EXCEPT !.optType = [o \in Opts |-> IF Contains(S.options, o)
                                          THEN listType \o "-option" ELSE @[o]]]

\* _syncWithSelectionModel: both branches call select().
SyncOption(S, o) ==
    LET S1 == IF isSelected(S, OptionValue(o)) /\ ~S.selected[o]
              THEN OptionSelect(S, o) ELSE S
    IN  IF ~isSelected(S1, OptionValue(o)) /\ S1.selected[o]
        THEN OptionSelect(S1, o) ELSE S1

RECURSIVE SyncWithSelectionModel(_, _)
SyncWithSelectionModel(S, os) ==
    IF os = <<>> THEN S
    ELSE SyncWithSelectionModel(SyncOption(S, Head(os)), Tail(os))

\* Variant of tapOnce without the one-shot latch.
TapOnce_Always(S, os, isFirst) == Preselect(S, os)

\* tapOnce(fn) in the pipeline of the container: fn is _preselect, which
\* returns without a further emission of the child collection, so that
\* the call and the clearing of the latch are one step; fn runs for the
\* first emission that gets through.
TapOnce(S, os, isFirst) == IF isFirst THEN Preselect(S, os) ELSE S

\* One emission of the child collection through the pipeline of
\* ngAfterContentInit: filter, tapOnce(_preselect), tap(align, sync) while
\* the previous inner subscription is still live, then switchMap.
Discovery(S, isFirst) ==
    IF Len(S.options) > 0
    THEN LET S1 == TapOnce(S, S.options, isFirst)
             S2 == SyncWithSelectionModel(AlignOptionTypes(S1), S1.options)
         IN  [S2 EXCEPT !.subscribed = Range(S2.options)]
    ELSE S

\* -------------------------------------------------------------- actions

\* The mutable state at the start of a call, nothing emitted yet.
Cur ==
    [model |-> model, selected |-> selected, timers |-> timers, optType |-> optType,
     options |-> options, subscribed |-> subscribed, log |-> <<>>,
     ngDevMode |-> TRUE]

\* The same in a build with or without the development-mode checks.
InBuild(ngDevMode) == [Cur EXCEPT !.ngDevMode = ngDevMode]


\* The state a call leaves behind.  A call that would leave more than
\* MaxTimers timers pending on one option is outside the bounded model.
Commit(S, op) ==
    /\ \A o \in Opts : S.timers[o] <= MaxTimers
    /\ model' = S.model
    /\ selected' = S.selected
    /\ timers' = S.timers
    /\ optType' = S.optType
    /\ options' = S.options
    /\ subscribed' = S.subscribed
    /\ lastEvents' = S.log
    /\ lastOp' = op
    /\ tap' = tap

\* The child collections the content query can hold: the option elements
\* of the template that are currently rendered, in document order.
Collections == {SeqFilter([i \in 1..Len(markup) |-> i], P) : P \in SUBSET Opts}

\* No stream under tapOnce besides the container's own pipeline.
TapIdle ==
    tap = [given |-> FALSE, accepts |-> {}, source |-> <<>>, first |-> TRUE,
           seen |-> <<>>, called |-> <<>>, out |-> <<>>,
           running |-> <<>>, closed |-> FALSE]

\* The container and its option elements after construction.
Constructed ==
    /\ markup \in Markups
    /\ multiple \in BOOLEAN
    /\ listType \in SelectionListTypes
    /\ optTimeout = [o \in DOMAIN markup |-> markup[o].selectionTimeout]
    /\ phase = "constructed"
    /\ isContentReady = FALSE
    /\ modelMultiple = FALSE
    /\ model = <<>>
    /\ options = <<>>
    /\ subscribed = {}
    /\ first = TRUE
    /\ selected \in [DOMAIN markup -> BOOLEAN]
    /\ timers = [o \in DOMAIN markup |-> 0]
    /\ optType = [o \in DOMAIN markup |-> "listbox-option"]
    /\ disabled = [o \in DOMAIN markup |-> FALSE]
    /\ lastOp = "constructor"
    /\ lastEvents = <<>>

\* The type input is not bound: the container keeps the default.
Init == Constructed /\ TapIdle /\ listType = "listbox"

\* ngOnInit: a fresh model of the arity given by the multiple input.
NgOnInit ==
    /\ phase = "constructed"
    /\ phase' = "initialized"
    /\ modelMultiple' = multiple
    /\ Commit([Cur EXCEPT !.model = <<>>], "ngOnInit")
    /\ UNCHANGED << markup, multiple, listType, optTimeout, isContentReady, disabled, first >>

\* ngAfterContentInit: the content query holds the rendered options os and
\* startWith pushes them through the pipeline.
NgAfterContentInit(os) ==
    /\ phase = "initialized"
    /\ phase' = "ready"
    /\ isContentReady' = TRUE
    /\ first' = (first /\ Len(os) = 0)
    /\ Commit(Discovery([Cur EXCEPT !.options = os], first),
              "ngAfterContentInit")
    /\ UNCHANGED << markup, multiple, listType, optTimeout, disabled, modelMultiple >>

\* _listOptionDirectives.changes: options were added or removed, which
\* takes a content query that has been resolved.  After ngOnDestroy the
\* query list still changes but the pipeline is gone.
Changes(os) ==
    /\ phase \in {"ready", "destroyed"} /\ isContentReady
    /\ os # options
    /\ first' = (first /\ (Len(os) = 0 \/ phase = "destroyed"))
    /\ Commit(IF phase = "ready"
              THEN Discovery([Cur EXCEPT !.options = os], first)
              ELSE [Cur EXCEPT !.options = os],
              "changes")
    /\ UNCHANGED << markup, multiple, listType, optTimeout, isContentReady, disabled, phase, modelMultiple >>

\* Variant of ngOnDestroy that leaves the subscription to the options'
\* state$ in place.
NgOnDestroy_KeepsSubscription ==
    /\ phase # "destroyed"
    /\ phase' = "destroyed"
    /\ Commit(Cur, "ngOnDestroy")
    /\ UNCHANGED << markup, multiple, listType, optTimeout, isContentReady, disabled, modelMultiple, first >>

\* ngOnDestroy: takeUntil(_destroy$) ends both subscriptions.  The hook
\* runs once, at whatever point of the lifecycle the directive is: also
\* before ngOnInit or ngAfterContentInit, and then _isContentReady stays
\* false for good.
NgOnDestroy ==
    /\ phase # "destroyed"
    /\ phase' = "destroyed"
    /\ Commit([Cur EXCEPT !.subscribed = {}], "ngOnDestroy")
    /\ UNCHANGED << markup, multiple, listType, optTimeout, isContentReady, disabled, modelMultiple, first >>

\* The builds a call that hands values to _model.select has to be followed
\* in: they differ only for several values on a single selection model.
Builds(values) == IF Len(values) > 1 /\ ~modelMultiple THEN BOOLEAN ELSE {TRUE}

\* writeValue(arg), in either build.
WriteValue(arg) ==
    /\ \E ngDevMode \in Builds(arg.items) :
          Commit(WriteValueTo(InBuild(ngDevMode), arg), "writeValue")
    /\ UNCHANGED << markup, multiple, listType, optTimeout, isContentReady, disabled, phase, modelMultiple, first >>

Select(arg) ==
    /\ Commit(ListSelect(Cur, arg), "select")
    /\ UNCHANGED << markup, multiple, listType, optTimeout, isContentReady, disabled, phase, modelMultiple, first >>

Deselect(v) ==
    /\ Commit(ListDeselect(Cur, v), "deselect")
    /\ UNCHANGED << markup, multiple, listType, optTimeout, isContentReady, disabled, phase, modelMultiple, first >>

SelectAllOptions(condition) ==
    /\ Commit(SelectAll(Cur, condition), "select")
    /\ UNCHANGED << markup, multiple, listType, optTimeout, isContentReady, disabled, phase, modelMultiple, first >>

DeselectAllOptions(condition) ==
    /\ Commit(DeselectAll(Cur, condition), "deselect")
    /\ UNCHANGED << markup, multiple, listType, optTimeout, isContentReady, disabled, phase, modelMultiple, first >>

\* click, Enter or Space on the option element
UserInteraction(o) ==
    /\ Commit(ToggleSelected(Cur, o), "option")
    /\ UNCHANGED << markup, multiple, listType, optTimeout, isContentReady, disabled, phase, modelMultiple, first >>

\* option.select() / option.deselect() called on the directive itself
SelectOption(o) ==
    /\ Commit(OptionSelect(Cur, o), "option")
    /\ UNCHANGED << markup, multiple, listType, optTimeout, isContentReady, disabled, phase, modelMultiple, first >>

DeselectOption(o) ==
    /\ Commit(OptionDeselect(Cur, o), "option")
    /\ UNCHANGED << markup, multiple, listType, optTimeout, isContentReady, disabled, phase, modelMultiple, first >>

\* A pending selectionTimeout timer of the option expires.
TimerFires(o) ==
    /\ timers[o] > 0
    /\ Commit(OptionDeselect([Cur EXCEPT !.timers[o] = @ - 1], o),
              "timer")
    /\ UNCHANGED << markup, multiple, listType, optTimeout, isContentReady, disabled, phase, modelMultiple, first >>

\* What a binding of the selectionTimeout input can deliver: a number of
\* milliseconds, or nothing (undefined, null or the empty string of a bare
\* attribute, which the setter treats alike; Undefined stands for them).
TimeoutInputs == {Undefined, 0, DEFAULT_SELECTION_TIMEOUT}

\* set selectionTimeout(timeout): the value the setter stores.
CoerceSelectionTimeout(timeout) ==
    IF timeout = Undefined THEN DEFAULT_SELECTION_TIMEOUT ELSE timeout

\* set selectionTimeout: the option takes a new timeout.  Timers that are
\* already pending stay pending.
SetSelectionTimeout(o, timeout) ==
    /\ optTimeout' = [optTimeout EXCEPT ![o] = CoerceSelectionTimeout(timeout)]
    /\ Commit(Cur, "selectionTimeout")
    /\ UNCHANGED << markup, multiple, listType, isContentReady, disabled, phase,
                    modelMultiple, first >>

Next ==
    \/ NgOnInit
    \/ \E os \in Collections : NgAfterContentInit(os)
    \/ \E os \in Collections : Changes(os)
    \/ NgOnDestroy
    \/ \E arg \in Args : WriteValue(arg)
    \/ \E arg \in Args : Select(arg)
    \/ \E v \in ArgValues : Deselect(v)
    \/ \E condition \in SUBSET Opts : SelectAllOptions(condition)
    \/ \E condition \in SUBSET Opts : DeselectAllOptions(condition)
    \/ \E o \in Opts : UserInteraction(o)
    \/ \E o \in Opts : SelectOption(o)
    \/ \E o \in Opts : DeselectOption(o)
    \/ \E o \in Opts : TimerFires(o)

Spec == Init /\ [][Next]_vars

\* ------------------------------------------------- the container in a form
(***************************************************************************)
(* The disabled flag of an option is read by its host bindings only        *)
(* (attributes, cursor, pointer-events): no method of either directive     *)
(* looks at it.  Spec therefore leaves every option at the default, and    *)
(* FormSpec adds the two ways the flag changes: the forms API              *)
(* (setDisabledState) and the option's own [disabled] input.               *)
(***************************************************************************)

\* setDisabledState(isDisabled): every current option gets the flag.
SetDisabledState(isDisabled) ==
    /\ disabled' = [o \in Opts |-> IF Contains(options, o) THEN isDisabled ELSE disabled[o]]
    /\ Commit(Cur, "setDisabledState")
    /\ UNCHANGED << markup, multiple, listType, optTimeout, isContentReady, phase, modelMultiple, first >>

\* The [disabled] input of one option element is bound to a new value.
SetDisabled(o, isDisabled) ==
    /\ disabled[o] # isDisabled
    /\ disabled' = [disabled EXCEPT ![o] = isDisabled]
    /\ Commit(Cur, "disabled")
    /\ UNCHANGED << markup, multiple, listType, optTimeout, isContentReady, phase, modelMultiple, first >>

NextForm ==
    \/ Next
    \/ \E isDisabled \in BOOLEAN : SetDisabledState(isDisabled)
    \/ \E o \in Opts : \E isDisabled \in BOOLEAN : SetDisabled(o, isDisabled)


\* Every option id of the templates.
OptionIds == UNION {DOMAIN m : m \in Markups}

\* The template with the timed option.
TimedTemplate == \E o \in DOMAIN markup : markup[o].selectionTimeout # 0

InitTimed == Init /\ TimedTemplate

\* A timer started by setTimeout expires: the event loop runs its callback.
TimersExpire == \A o \in OptionIds : WF_vars(o \in Opts /\ TimerFires(o))

\* The option elements that bind the selectionTimeout input in the template.
BoundTimeouts == {o \in Opts : markup[o].selectionTimeout # 0}

\* Next together with the bindings of the selectionTimeout inputs: a
\* binding calls the setter when its value has changed.
NextTimed ==
    \/ Next
    \/ \E o \in BoundTimeouts : \E timeout \in TimeoutInputs :
          /\ CoerceSelectionTimeout(timeout) # optTimeout[o]
          /\ SetSelectionTimeout(o, timeout)

\* The template with a plain and a timed option, the timeout of the timed
\* option being rebound while the list is in use.
TimedSpec == InitTimed /\ [][NextTimed]_vars

\* The same for a single-selection list, every pending timer expiring in
\* the end.
InitLive == InitTimed /\ ~multiple

LiveSpec == InitLive /\ [][NextTimed]_vars /\ TimersExpire

\* The container as a single-selection form control of either type, on
\* the template with a plain and a timed option.
InitForm == Constructed /\ TapIdle /\ TimedTemplate /\ multiple = FALSE

FormSpec == InitForm /\ [][NextForm]_vars

\* ------------------------------------------------------------- tapOnce
(***************************************************************************)
(* tapOnce(fn, options?) on its own: a source stream of payloads, the      *)
(* optional withCondition predicate (the set of payloads it accepts), and  *)
(* per subscription the latch, what the source has emitted, the payloads   *)
(* fn was called with and what went downstream.  fn is the caller's: it    *)
(* may return, throw, or make the source emit again before it returns, so  *)
(* the tap callback is modelled in two steps around the call of fn:        *)
(* running holds the payloads whose fn has not returned yet, innermost     *)
(* first, and closed tells that an error has ended the subscription.       *)
(***************************************************************************)

MaxEmissions == 3

Payloads == {1, 2, 3}

RECURSIVE SeqsUpTo(_)
SeqsUpTo(n) ==
    IF n = 0 THEN {<<>>}
    ELSE LET shorter == SeqsUpTo(n - 1)
         IN  shorter \cup {Append(s, p) : s \in {q \in shorter : Len(q) = n - 1},
                                          p \in Payloads}

\* tap hands the payload to its subscriber, which takes it unless the
\* subscription has ended.
TapPassOn(k, payload) ==
    IF k.closed THEN k ELSE [k EXCEPT !.out = Append(@, payload)]

\* The tap callback of tapOnce for one payload, up to the call of fn: with
\* the latch set and the payload qualifying fn is entered, otherwise the
\* payload goes downstream right away.
TapOnceTap(k, payload) ==
    LET call == k.first /\ (~k.given \/ payload \in k.accepts)
        k1 == [k EXCEPT !.seen = Append(@, payload)]
    IN  IF call
        THEN [k1 EXCEPT !.called = Append(@, payload),
                        !.running = <<payload>> \o @]
        ELSE TapPassOn(k1, payload)

\* fn returns: the latch is cleared and tap passes the payload on.
FnReturns(k) ==
    TapPassOn([k EXCEPT !.first = FALSE, !.running = Tail(@)], Head(k.running))

\* fn throws: the latch stays as it is, tap sends the error downstream
\* instead of the payload, and that ends the subscription.
FnThrows(k) == [k EXCEPT !.running = Tail(@), !.closed = TRUE]

\* defer: a subscription starts with its own latch; the source will emit
\* the payloads of source.
TapSubscribe(source) ==
    /\ tap.running = <<>>
    /\ tap' = [tap EXCEPT !.source = source, !.first = TRUE, !.seen = <<>>,
                          !.called = <<>>, !.out = <<>>, !.closed = FALSE]
    /\ UNCHANGED << markup, multiple, listType, optTimeout, isContentReady, phase, modelMultiple, model,
                    options, subscribed, first, selected, timers, optType, disabled,
                    lastOp, lastEvents >>

\* The source emits its next payload to the subscription: between two
\* calls, or from inside a running fn.
TapEmit ==
    /\ tap.source # <<>> /\ ~tap.closed
    /\ tap' = TapOnceTap([tap EXCEPT !.source = Tail(@)], Head(tap.source))
    /\ UNCHANGED << markup, multiple, listType, optTimeout, isContentReady, phase, modelMultiple, model,
                    options, subscribed, first, selected, timers, optType, disabled,
                    lastOp, lastEvents >>

\* The innermost running fn returns.
TapFnReturns ==
    /\ tap.running # <<>>
    /\ tap' = FnReturns(tap)
    /\ UNCHANGED << markup, multiple, listType, optTimeout, isContentReady, phase, modelMultiple, model,
                    options, subscribed, first, selected, timers, optType, disabled,
                    lastOp, lastEvents >>

\* The innermost running fn throws.
TapFnThrows ==
    /\ tap.running # <<>>
    /\ tap' = FnThrows(tap)
    /\ UNCHANGED << markup, multiple, listType, optTimeout, isContentReady, phase, modelMultiple, model,
                    options, subscribed, first, selected, timers, optType, disabled,
                    lastOp, lastEvents >>

\* tapOnce(fn) or tapOnce(fn, {withCondition}) applied to a source, next
\* to a container that is left alone.
InitTap ==
    /\ Constructed /\ listType = "listbox"
    /\ Len(markup) = 3 /\ ~multiple /\ \A o \in DOMAIN markup : ~selected[o]
    /\ \E given \in BOOLEAN : \E accepts \in SUBSET Payloads :
       \E source \in SeqsUpTo(MaxEmissions) :
          /\ given \/ accepts = {}
          /\ tap = [given |-> given, accepts |-> accepts, source |-> source,
                    first |-> TRUE, seen |-> <<>>, called |-> <<>>, out |-> <<>>,
                    running |-> <<>>, closed |-> FALSE]

NextTap ==
    \/ TapEmit
    \/ TapFnReturns
    \/ TapFnThrows
    \/ \E source \in SeqsUpTo(MaxEmissions) : TapSubscribe(source)

TapSpec == InitTap /\ [][NextTap]_vars

\* ------------------------------------------------------------ vocabulary

\* The options currently in the child collection.
Current == Range(options)

\* The options of the child collection whose selected flag is set.
SelectedOptions == {o \in Current : selected[o]}

\* The container's value getter in the current state.
value == ContainerValue(model)

Empty == Scalar(Undefined)

\* The template of the test suite: no selectionTimeout, values distinct
\* and non-nil.
PlainDistinct(os) ==
    /\ \A o \in os : selectionTimeout(o) = 0 /\ isNonNil(OptionValue(o))
    /\ \A o \in os : \A q \in os : OptionValue(o) = OptionValue(q) => o = q

\* The child-discovery reaction has just run (pre-seed on the first one,
\* then model-to-view sync).
AfterDiscovery ==
    /\ lastOp \in {"ngAfterContentInit", "changes"}
    /\ phase = "ready"
    /\ options # <<>>

\* The selected flags of the current options agree with the model.
FlagsMatchModel ==
    \A o \in Current :
        isNonNil(OptionValue(o)) => (selected[o] <=> ModelIsSelected(model, OptionValue(o)))

\* ---------------------------------------------------------------- claims

\* C1: in a single-selection container, once a reaction has run to
\* completion, at most one child option has selected = true.  Stated for
\* the plain template (distinct non-nil values, no selectionTimeout).
C1_AtMostOneSelected ==
    (phase = "ready" /\ ~multiple /\ PlainDistinct(Current))
        => Cardinality(SelectedOptions) <= 1

\* C2: after each child-discovery reaction, every current option with a
\* non-nil value has selected = true exactly if the model contains its
\* value.  Stated for the plain template.
C2_SyncedAfterDiscovery ==
    (AfterDiscovery /\ PlainDistinct(Current)) => FlagsMatchModel

HasEvent(e) == \E i \in DOMAIN lastEvents : lastEvents[i] = e

\* C3: single selection, plain template, flags in agreement with the model
\* (as they are with nothing selected and stay under clicks): clicking an
\* unselected option makes its value the container value and leaves every
\* other option unselected; clicking the selected option deselects it and
\* empties the value.
C3_SingleClick ==
    [][\A o \in Opts :
        ( /\ phase = "ready" /\ ~multiple
          /\ o \in Current /\ PlainDistinct(Current)
          /\ FlagsMatchModel
          /\ UserInteraction(o) )
        => /\ IF selected[o]
              THEN value' = Empty /\ SelectedOptions' = {}
              ELSE value' = Scalar(OptionValue(o)) /\ SelectedOptions' = {o}
           /\ FlagsMatchModel']_vars

\* Option 3 has been clicked while option 1 was the selected one.
C3_Witness ==
    /\ lastOp = "option" /\ phase = "ready" /\ ~multiple
    /\ Len(options) = 3 /\ PlainDistinct(Current)
    /\ HasEvent(Event("deselected", 0, FALSE, Scalar(1)))
    /\ HasEvent(Event("option", 3, TRUE, Scalar(3)))
    /\ value = Scalar(3) /\ SelectedOptions = {3}

\* The value getter lists exactly the non-nil values of the current options
\* whose selected flag is set, each once.
ValueListsSelected ==
    LET vs == {OptionValue(o) : o \in {q \in SelectedOptions : isNonNil(OptionValue(q))}}
    IN  IF vs = {} THEN value = Empty
        ELSE /\ value.isArray
             /\ Range(value.items) = vs
             /\ Len(value.items) = Cardinality(vs)

DistinctValues(os) == \A o \in os : \A q \in os : OptionValue(o) = OptionValue(q) => o = q

\* A selection or deselection of options: by interaction, by the option's
\* or the container's select/deselect methods.
SelectionStep == lastOp' \in {"option", "select", "deselect"}

TimerStep == lastOp' = "timer"

\* C4 as stated: in a multi-selection container (options discovered, values
\* distinct) every selection or deselection, timer-driven ones included,
\* leaves the value listing exactly the values of the selected options.
C4_ValueListsSelected_Original ==
    [][( /\ phase = "ready" /\ multiple /\ options # <<>>
         /\ DistinctValues(Current)
         /\ ValueListsSelected
         /\ (SelectionStep \/ TimerStep) )
       => ValueListsSelected']_vars

\* C4 as amended: the same for options without selectionTimeout.
C4_ValueListsSelected ==
    [][( /\ phase = "ready" /\ multiple /\ options # <<>>
         /\ DistinctValues(Current)
         /\ \A o \in Current : selectionTimeout(o) = 0
         /\ ValueListsSelected
         /\ (SelectionStep \/ TimerStep) )
       => ValueListsSelected']_vars

\* The first and the last of the options 1, 2, 3 have been selected.
C4_Witness ==
    /\ lastOp = "option" /\ phase = "ready" /\ multiple
    /\ Len(options) = 3 /\ PlainDistinct(Current)
    /\ HasEvent(Event("option", 3, TRUE, Scalar(3)))
    /\ SelectedOptions = {1, 3}
    /\ value = Array(<<1, 3>>)

\* C5: when the model holds no non-nil value the container value is empty,
\* and a value that is an array is neither empty nor holds a nil element.
C5_EmptyValue ==
    /\ (\A i \in DOMAIN model : isNil(model[i]))
          => (~value.isArray /\ isNil(value.items[1]))
    /\ value.isArray
          => (value.items # <<>> /\ \A i \in DOMAIN value.items : isNonNil(value.items[i]))

\* A form control without initial value has written null into a
\* multi-selection container.
C5_Witness ==
    /\ lastOp = "writeValue" /\ modelMultiple
    /\ model = <<Null>>
    /\ value = Empty

\* The step is the reaction to one emission of the child collection,
\* which then is options'.
DiscoveryStep == lastOp' \in {"ngAfterContentInit", "changes"} /\ phase' = "ready"

\* The step is the first discovery of a non-empty option list.
FirstDiscoveryStep == DiscoveryStep /\ first /\ ~first'

\* The current options of os whose selected flag is set and whose value
\* is not nil.
Declared(os) == {o \in Range(os) : selected[o] /\ isNonNil(OptionValue(o))}

\* C6 as stated: the first discovery of a non-empty option list finds the
\* model empty; afterwards the model contains the value of every option
\* that was already selected, and with exactly one such option (its value
\* shared by no other option) its value is the container value and no
\* other option is selected.
C6_Preseed_Original ==
    [][(FirstDiscoveryStep /\ model = <<>>)
       => LET os == options' IN
           /\ \A o \in Declared(os) : ModelIsSelected(model', OptionValue(o))
           /\ \A o \in Range(os) :
                 ( /\ {q \in Range(os) : selected[q]} = {o}
                   /\ isNonNil(OptionValue(o))
                   /\ \A q \in Range(os) \ {o} : OptionValue(q) # OptionValue(o) )
                 => (SelectedOptions' = {o} /\ Range(value'.items) = {OptionValue(o)})]_vars

\* C6 as amended: a multi-selection model then holds exactly the non-nil
\* values of the options that were already selected, a single-selection
\* model only that of the last of them.
C6_Preseed ==
    [][(FirstDiscoveryStep /\ model = <<>>)
       => LET os == options' IN
           /\ Range(model') \subseteq {OptionValue(o) : o \in Declared(os)}
           /\ modelMultiple
                 => \A o \in Declared(os) : ModelIsSelected(model', OptionValue(o))
           /\ (~modelMultiple /\ Declared(os) # {})
                 => LET last == CHOOSE o \in Declared(os) : \A q \in Declared(os) : q <= o
                    IN  model' = <<OptionValue(last)>>
           /\ \A o \in Range(os) :
                 ( /\ {q \in Range(os) : selected[q]} = {o}
                   /\ isNonNil(OptionValue(o))
                   /\ \A q \in Range(os) \ {o} : OptionValue(q) # OptionValue(o) )
                 => (SelectedOptions' = {o} /\ Range(value'.items) = {OptionValue(o)})]_vars

\* A single-selection template declared options 2 and 3 selected: the
\* first discovery recorded 2, then replaced it by 3.
C6_Witness ==
    /\ lastOp = "ngAfterContentInit" /\ phase = "ready" /\ ~multiple
    /\ ~first
    /\ HasEvent(Event("selected", 0, TRUE, Scalar(2)))
    /\ HasEvent(Event("deselected", 0, FALSE, Scalar(2)))
    /\ model = <<3>>

\* C7: the pre-seed latch is consumed by the first non-empty emission of
\* the child collection and by nothing else, and never comes back; on a
\* later emission an option that is new to the subscription and arrives
\* selected does not get its value into the model (no subscribed option
\* sharing that value).
C7_PreseedOnce ==
    [][ /\ ~first => ~first'
        /\ DiscoveryStep
            => LET os == options' IN
               /\ first' = (first /\ os = <<>>)
               /\ (first /\ os = <<>>) => model' = model
               /\ ~first
                    => \A o \in Range(os) \ subscribed :
                          ( /\ selected[o] /\ isNonNil(OptionValue(o))
                            /\ ~ModelIsSelected(model, OptionValue(o))
                            /\ \A q \in subscribed : OptionValue(q) # OptionValue(o) )
                          => ~ModelIsSelected(model', OptionValue(o)) ]_vars

\* A later change of the collection brought in a selected option while the
\* model was empty, and the model is still empty.
C7_Witness ==
    /\ lastOp = "changes" /\ phase = "ready" /\ ~first
    /\ model = <<>>
    /\ \E o \in Current : selected[o] /\ isNonNil(OptionValue(o))

\* C8: in a multi-selection container with discovered options (plain
\* template, every value of the model belonging to a current option),
\* writeValue(vs) with every element of vs matching an option leaves
\* value = vs and exactly the options with a value in vs selected.
C8_WriteValueSelectsExactly ==
    [][\A arg \in Args :
        ( /\ lastOp' = "writeValue"
          /\ phase = "ready" /\ multiple /\ options # <<>>
          /\ PlainDistinct(Current)
          /\ arg.isArray
          /\ \A i \in DOMAIN arg.items : \E o \in Current : OptionValue(o) = arg.items[i]
          /\ \A i \in DOMAIN model : \E o \in Current : OptionValue(o) = model[i]
          /\ WriteValue(arg) )
        => /\ value' = (IF arg.items = <<>> THEN Empty ELSE Array(arg.items))
           /\ SelectedOptions' = {o \in Current : OptionValue(o) \in Range(arg.items)}]_vars

\* C9: a value passed to writeValue before the child options are
\* discovered is recorded in the model (an array only into a
\* multi-selection container), stays there until discovery (multi
\* selection; a single-selection model keeps the last value written), and
\* after the first discovery every option with a recorded value is
\* selected and the container value lists the recorded values.
C9_EarlyWriteReconciled ==
    [][ /\ \A arg \in Args :
            ( /\ lastOp' = "writeValue"
              /\ phase \in {"constructed", "initialized"}
              /\ (multiple \/ Len(arg.items) <= 1)
              /\ WriteValue(arg) )
            => \A i \in DOMAIN arg.items : ModelIsSelected(model', arg.items[i])
        /\ (phase \in {"constructed", "initialized"} /\ multiple)
            => \A i \in DOMAIN model : ModelIsSelected(model', model[i])
        /\ FirstDiscoveryStep
            => /\ \A i \in DOMAIN model : ModelIsSelected(model', model[i])
               /\ \A o \in Current' :
                     (isNonNil(OptionValue(o)) /\ ModelIsSelected(model, OptionValue(o)))
                     => selected'[o]
               /\ \A i \in DOMAIN model :
                     isNonNil(model[i]) => Contains(value'.items, model[i]) ]_vars

Timed(o) == selectionTimeout(o) # 0

\* C10: an option with a positive selectionTimeout never emits
\* {selected: false}; each of its transitions to selected starts a timer,
\* an expiring timer leaves it unselected, and a pending timer does
\* expire.
C10_TimedOption ==
    /\ [][ /\ \A i \in DOMAIN lastEvents' :
                (lastEvents'[i].type = "option" /\ Timed(lastEvents'[i].opt))
                => lastEvents'[i].sel
           /\ \A o \in Opts :
                (Timed(o) /\ ~selected[o] /\ selected'[o]) => timers'[o] = timers[o] + 1
           /\ \A o \in Opts :
                (lastOp' = "timer" /\ timers'[o] < timers[o]) => ~selected'[o] ]_vars
    /\ \A o \in OptionIds :
          (o \in Opts /\ Timed(o) /\ timers[o] > 0) ~> (o \in Opts /\ ~selected[o])

\* The timer of a selected timed option has expired: the flag is back to
\* false, nothing was emitted and the model still holds the value.
C10_Witness ==
    /\ lastOp = "timer" /\ lastEvents = <<>>
    /\ \E o \in Opts :
          /\ Timed(o) /\ ~selected[o] /\ timers[o] = 0
          /\ ModelIsSelected(model, OptionValue(o))

\* No current option has the value v.
NoMatch(v) == \A o \in Current : OptionValue(o) # v

\* C11: select(value), for a single value or an array, and deselect(value)
\* with values that equal no current option's value change neither the
\* model (and with it the container value) nor any option's selected flag
\* or timer, and produce no selected, deselected or onChange notification:
\* in every state such a call returns with nothing changed and nothing
\* emitted.
C11_UnknownValueNoOp ==
    /\ \A arg \in Args :
          (\A i \in DOMAIN arg.items : NoMatch(arg.items[i]))
          => ListSelect(Cur, arg) = Cur
    /\ \A v \in ArgValues :
          NoMatch(v) => ListDeselect(Cur, v) = Cur

\* With options 1 and 2 rendered and a value recorded, a select() reached
\* no option: nothing was emitted.
C11_Witness ==
    /\ lastOp = "select" /\ lastEvents = <<>>
    /\ phase = "ready" /\ Len(markup) = 3 /\ options = <<1, 2>>
    /\ model # <<>>

\* The options that are not, or no longer, in the child collection.
Stale == Opts \ Current

\* C12: once the child collection has changed, an interaction, select() or
\* deselect() on an option that is not in the collection any more changes
\* neither the selection model nor the container value, whatever the
\* collection changed to (the empty collection included).
C12_StaleOptionsSilent ==
    phase = "ready"
        => \A o \in Stale : \A sel \in BOOLEAN :
              LET S == Update(Cur, o, sel)
              IN  S.model = model /\ ContainerValue(S.model) = value

\* The container's notifications: the selected and deselected outputs and
\* the registered onChange callback.
Notifications(events) ==
    SelectSeq(events, LAMBDA e : e.type \in {"selected", "deselected", "onChange"})

\* The step is a writeValue on a container whose content never got ready:
\* it goes to the model directly.
DirectWriteStep == lastOp' = "writeValue" /\ ~isContentReady

\* C13: once the container is destroyed it stays destroyed, no selected,
\* deselected or onChange notification is produced, and no step changes
\* the selection model: not an interaction, select() or deselect() on an
\* option, a timer expiry or a call of the container, the one exception
\* being writeValue on a container that was destroyed before its content
\* was ready.
C13_DestroyedIsInert ==
    [][phase = "destroyed"
       => /\ phase' = "destroyed"
          /\ ~DirectWriteStep => model' = model
          /\ Notifications(lastEvents') = <<>>]_vars

\* After ngOnDestroy a current option was selected and emitted its
\* change; its value is not in the model.
C13_Witness ==
    /\ phase = "destroyed" /\ lastOp = "option"
    /\ \E o \in Current :
          /\ isNonNil(OptionValue(o))
          /\ lastEvents = <<Event("option", o, TRUE, Scalar(OptionValue(o)))>>
          /\ selected[o]
          /\ ~ModelIsSelected(model, OptionValue(o))

\* Replays the notifications of one call on the model it started from:
\* a selected or deselected output stands for a change of the model by that
\* value, and each onChange has to follow such a change and to carry the
\* value of the model as changed so far.  r = [model, changed, ok].
RECURSIVE Replay(_, _)
Replay(r, events) ==
    IF events = <<>> THEN r
    ELSE LET e == Head(events)
             v == e.val.items[1]
             next ==
                 IF e.type = "selected"
                 THEN [r EXCEPT !.model = IF modelMultiple THEN Append(@, v) ELSE <<v>>,
                                !.changed = TRUE]
                 ELSE IF e.type = "deselected"
                 THEN [r EXCEPT !.model = SelectSeq(@, LAMBDA x : x # v),
                                !.changed = TRUE]
                 ELSE [r EXCEPT !.ok = @ /\ r.changed /\ e.val = ContainerValue(r.model),
                                !.changed = FALSE]
         IN  Replay(next, Tail(events))

\* writeValue before the options are discovered: the one call that changes
\* the model by more than one value at once.
EarlyWriteStep == lastOp' = "writeValue" /\ phase = "initialized"

\* The step is a write the selection model accepts in every build: a
\* single value, or an array for a multi-selection model.
AcceptedWrite ==
    \E arg \in Args : (modelMultiple \/ Len(arg.items) <= 1) /\ WriteValue(arg)

\* The notifications of the step account for the change of the model.
OnChangeFollowsChanges ==
    IF EarlyWriteStep
    THEN LET outputs == SelectSeq(lastEvents',
                                  LAMBDA e : e.type \in {"selected", "deselected"})
         IN  /\ Notifications(lastEvents')
                  = outputs \o (IF outputs # <<>>
                                THEN <<Event("onChange", 0, FALSE, value')>> ELSE <<>>)
             /\ model' # model => outputs # <<>>
             /\ (AcceptedWrite /\ model' = model) => lastEvents' = <<>>
    ELSE LET r == Replay([model |-> model, changed |-> FALSE, ok |-> TRUE],
                         Notifications(lastEvents'))
         IN  r.ok /\ ~r.changed /\ r.model = model'

\* C14: from ngOnInit until ngOnDestroy every change of the model is
\* followed by one onChange call with the value as recomputed after that
\* change, and there is no onChange without a change: replaying the
\* notifications of a call on the model it started from reproduces the
\* model it ends with, each onChange following a change and carrying the
\* value at that point.  A write before discovery is one change: if the
\* model differs afterwards it calls onChange once, with the new value, and
\* a write the selection model accepts in every build calls it only then.
\* (Several values written to a single-selection model pass in a production
\* build only; they replace one another and are reported as one change.)
C14_OnChangePerChange ==
    [][(phase = "initialized" \/ phase = "ready") => OnChangeFollowsChanges]_vars

\* writeValue([2]) on a discovered multi-selection list whose model held 1:
\* two changes, each followed by its onChange.
C14_Witness ==
    /\ lastOp = "writeValue" /\ phase = "ready" /\ multiple
    /\ Notifications(lastEvents)
          = << Event("deselected", 0, FALSE, Scalar(1)),
               Event("onChange", 0, FALSE, Empty),
               Event("selected", 0, TRUE, Scalar(2)),
               Event("onChange", 0, FALSE, Array(<<2>>)) >>

\* C15: in every state a user interaction (click, Enter, Space) on any
\* option inverts its selected flag, aria-selected following the flag, and
\* a second interaction right after the first on an option without
\* selectionTimeout restores the flag.
C15_InteractionInverts ==
    \A o \in Opts :
        LET S1 == ToggleSelected(Cur, o)
            S2 == ToggleSelected(S1, o)
        IN  /\ S1.selected[o] = ~selected[o]
            /\ ariaSelected(S1, o) = ~selected[o]
            /\ ~Timed(o) => S2.selected[o] = selected[o]

\* The selected option 2 of a discovered single-selection list has been
\* interacted with: it is unselected again and the value is empty.
C15_Witness ==
    /\ lastOp = "option" /\ phase = "ready" /\ ~multiple
    /\ options = <<1, 2, 3>>
    /\ lastEvents = << Event("option", 2, FALSE, Scalar(2)),
                       Event("deselected", 0, FALSE, Scalar(2)),
                       Event("onChange", 0, FALSE, Empty) >>
    /\ ~selected[2]

\* C16: a user interaction delivered to an option whose disabled flag is
\* set leaves the option's selected flag as it was and emits no selection
\* change.
C16_DisabledIgnoresInteraction ==
    \A o \in Opts :
        disabled[o]
        => LET S == ToggleSelected(Cur, o)
           IN  S.selected[o] = selected[o] /\ S.log = <<>>

\* The step starts with a subscribed option emitting {selected: true, v}
\* while the single-selection model holds another value w that belongs to
\* current, subscribed options (without selectionTimeout unless timed
\* options are admitted).  Then every option of w is deselected and w
\* leaves the model, with the deselected output and onChange(empty),
\* before v enters it with the selected output and onChange(v).
ExclusivityFirst(admitTimed) ==
    (phase = "ready" /\ ~modelMultiple /\ Len(model) = 1 /\ lastEvents' # <<>>)
    => LET events == lastEvents'
           e1 == events[1]
           v == e1.val.items[1]
           w == model[1]
           owners == {o \in Range(options') : OptionValue(o) = w}
       IN  ( /\ e1.type = "option" /\ e1.sel /\ e1.opt \in subscribed
             /\ isNonNil(v) /\ isNonNil(w) /\ v # w
             /\ owners # {} /\ owners \subseteq subscribed
             /\ (admitTimed \/ \A o \in owners : ~Timed(o)) )
           => \E iD \in DOMAIN events : \E iS \in DOMAIN events :
                 /\ iD + 1 < iS /\ iS + 1 <= Len(events)
                 /\ events[iD] = Event("deselected", 0, FALSE, Scalar(w))
                 /\ events[iD + 1] = Event("onChange", 0, FALSE, Empty)
                 /\ events[iS] = Event("selected", 0, TRUE, Scalar(v))
                 /\ events[iS + 1] = Event("onChange", 0, FALSE, Scalar(v))
                 /\ \A j \in 1..(iS - 1) : events[j].type # "selected"
                 /\ \A o \in owners :
                       \E j \in 1..(iD - 1) :
                          events[j] = Event("option", o, FALSE, Scalar(w))

\* C17 as stated: in single selection a select event for a value v while
\* another option, of value w, is selected deselects that option and
\* removes w from the model (deselected output, onChange with the empty
\* value) strictly before v is added (selected output): whatever the
\* option of w is.
C17_ExclusivityFirst_Original ==
    [][ExclusivityFirst(TRUE)]_vars

\* C17 as amended: the same when the option of w has no selectionTimeout.
C17_ExclusivityFirst ==
    [][ExclusivityFirst(FALSE)]_vars

\* Option 1 of a single-selection list was selected while option 2 was:
\* 2 left the model before 1 entered it.
C17_Witness ==
    /\ phase = "ready" /\ ~multiple /\ options = <<1, 2, 3>>
    /\ lastEvents = << Event("option", 1, TRUE, Scalar(1)),
                       Event("option", 2, FALSE, Scalar(2)),
                       Event("deselected", 0, FALSE, Scalar(2)),
                       Event("onChange", 0, FALSE, Empty),
                       Event("selected", 0, TRUE, Scalar(1)),
                       Event("onChange", 0, FALSE, Scalar(1)) >>
    /\ model = <<1>> /\ selected[1] /\ ~selected[2]

\* The {selected, value} events the option o emitted during a call.
OwnEvents(log, o) == SelectSeq(log, LAMBDA e : e.type = "option" /\ e.opt = o)

\* C18: in every state, select(), deselect() and the interaction handler
\* of any option set the flag to the target and emit exactly one
\* {selected, value} event, whether or not the flag already had the target
\* value; only the deselect of an option with a selectionTimeout emits
\* nothing.
C18_UpdateIsWrite ==
    \A o \in Opts : \A sel \in BOOLEAN :
        LET S == Update(Cur, o, sel)
        IN  /\ S.selected[o] = sel
            /\ OwnEvents(S.log, o)
                  = IF Timed(o) /\ ~sel
                    THEN <<>>
                    ELSE <<Event("option", o, sel, Scalar(OptionValue(o)))>>
            /\ ToggleSelected(Cur, o) = Update(Cur, o, ~selected[o])

\* In a discovered multi-selection list an option whose value the model
\* already held was selected: it emitted, and nothing else happened.
C18_Witness ==
    /\ lastOp = "option" /\ phase = "ready" /\ multiple
    /\ \E o \in Current :
          /\ ~Timed(o) /\ isNonNil(OptionValue(o))
          /\ lastEvents = <<Event("option", o, TRUE, Scalar(OptionValue(o)))>>
          /\ selected[o]
          /\ ModelIsSelected(model, OptionValue(o))

\* How often the option o was selected during a call: a timed option emits
\* on every select.
Selects(log, o) == Len(SelectSeq(log, LAMBDA e : e.type = "option" /\ e.opt = o /\ e.sel))

\* No select of the option o in this step.
NoSelectOf(o) == o \in Opts => timers'[o] <= timers[o]

\* C19: for an option with a selectionTimeout, every select adds exactly
\* one pending timer and no call removes one, a rebinding of the timeout
\* included; an expiring timer removes itself only, leaves the option
\* unselected and, the timeout still being positive, emits nothing,
\* whatever happened to the option since it was set and however many
\* other timers are pending; and once the selects of the option come to an
\* end, its pending timers run out, the last of them leaving the option
\* unselected.
C19_TimersNeverCancelled ==
    /\ [][IF lastOp' = "timer"
          THEN \E o \in Opts :
                  /\ timers[o] > 0
                  /\ timers' = [timers EXCEPT ![o] = @ - 1]
                  /\ ~selected'[o]
                  /\ Timed(o) => lastEvents' = <<>>
          ELSE \A o \in Opts :
                  timers'[o] = timers[o] + IF Timed(o) THEN Selects(lastEvents', o)
                                           ELSE 0]_vars
    /\ \A o \in OptionIds :
          (<>[][NoSelectOf(o)]_vars)
          => ((o \in Opts /\ Timed(o) /\ timers[o] > 0)
                 ~> (o \in Opts /\ timers[o] = 0 /\ ~selected[o]))

\* Two selects of the timed option were pending and the first timer has
\* expired: the option is unselected while the second timer is still to
\* come.
C19_Witness ==
    /\ lastOp = "timer"
    /\ \E o \in Opts : Timed(o) /\ timers[o] = 1 /\ ~selected[o]

\* The notifications split into one run per change of the model, each run
\* ending with its onChange: no run has more than one selected or more
\* than one deselected output.  seen = [selected, deselected].
RECURSIVE AtMostOncePerChange(_, _)
AtMostOncePerChange(seen, events) ==
    IF events = <<>> THEN TRUE
    ELSE LET e == Head(events)
         IN  IF e.type = "onChange"
             THEN AtMostOncePerChange([selected |-> FALSE, deselected |-> FALSE],
                                      Tail(events))
             ELSE /\ ~seen[e.type]
                  /\ AtMostOncePerChange([seen EXCEPT ![e.type] = TRUE], Tail(events))

\* The values of an early write that the model does not hold yet.
Added(arg) == SelectSeq(arg.items, LAMBDA v : ~ModelIsSelected(model, v))

\* C20: between two onChange calls, that is per change of the model, the
\* selected output emits at most once and the deselected output at most
\* once; and a writeValue before discovery, the one call that changes the
\* model by a batch, emits selected with the first value it added only
\* (in a single-selection model deselected with the value it replaced)
\* and calls onChange once, after a multi-selection model took every added
\* value.
C20_FirstOfBatch ==
    [][(phase = "initialized" \/ phase = "ready")
       => /\ AtMostOncePerChange([selected |-> FALSE, deselected |-> FALSE],
                                 Notifications(lastEvents'))
          /\ \A arg \in Args :
                ( /\ EarlyWriteStep
                  /\ modelMultiple \/ Len(arg.items) <= 1
                  /\ Added(arg) # <<>>
                  /\ WriteValue(arg) )
                => /\ lastEvents'
                        = <<Event("selected", 0, TRUE, Scalar(Added(arg)[1]))>>
                          \o (IF ~modelMultiple /\ model # <<>>
                              THEN <<Event("deselected", 0, FALSE, Scalar(model[1]))>>
                              ELSE <<>>)
                          \o <<Event("onChange", 0, FALSE, value')>>
                   /\ modelMultiple => model' = model \o Added(arg)]_vars

\* writeValue([1, 2]) before discovery on an empty multi-selection model:
\* both values are recorded, selected emitted 1 only.
C20_Witness ==
    /\ lastOp = "writeValue" /\ phase = "initialized" /\ multiple
    /\ model = <<1, 2>>
    /\ lastEvents = << Event("selected", 0, TRUE, Scalar(1)),
                       Event("onChange", 0, FALSE, Array(<<1, 2>>)) >>

\* The step is a change of the child collection of a discovered list that
\* only removes options.
RemovalStep ==
    /\ lastOp' = "changes" /\ phase = "ready"
    /\ Range(options') \subseteq Current
    /\ Range(options') # Current

\* C21: a change of the child collection that only removes options (plain
\* template) changes no model state and notifies nobody, so the value of a removed
\* option that was selected stays in the model and in the container value;
\* and a value of the model that belongs to no current option is out of
\* reach of select(), deselect() and the reset of writeValue.
C21_RemovalKeepsModel ==
    /\ [][(RemovalStep /\ PlainDistinct(Current))
           => /\ model' = model
              /\ value' = value
              /\ Notifications(lastEvents') = <<>>]_vars
    /\ [](\A i \in DOMAIN model :
             (isNonNil(model[i]) /\ NoMatch(model[i]))
             => /\ isSelected(Cur, model[i])
                /\ ListSelect(Cur, Scalar(model[i])) = Cur
                /\ ListDeselect(Cur, model[i]) = Cur
                /\ ModelIsSelected(ResetOptions(Cur).model, model[i]))

\* The container value holds v.
ValueContains(selection, v) == Contains(ContainerValue(selection).items, v)

\* C22: in every state, for a subscribed option with a selectionTimeout
\* whose value the model holds: a deselect of the option, by timer expiry,
\* by deselect() on the option or through the container, resets the flag,
\* emits nothing and leaves the model alone, so that isSelected(value) is
\* still true and the container value still holds it; and selecting the
\* option again changes no model state and produces neither a selected
\* output nor an onChange call.
C22_TimedValueStays ==
    \A o \in Opts :
        (Timed(o) /\ o \in subscribed /\ isSelected(Cur, OptionValue(o)))
        => LET v == OptionValue(o)
               D == OptionDeselect(Cur, o)
               L == ListDeselect(Cur, v)
               R == OptionSelect(D, o)
           IN  /\ ~D.selected[o] /\ D.log = <<>> /\ D.model = model
               /\ isSelected(D, v) /\ ValueContains(D.model, v)
               /\ L.model = model /\ L.log = <<>>
               /\ R.selected[o] /\ R.model = model
               /\ Notifications(R.log) = <<>>
               /\ R.log = <<Event("option", o, TRUE, Scalar(v))>>

\* The timed option has been selected while the model already held its
\* value: it emitted and its only timer is pending, the model still holds
\* the value and the container notified nobody.
C22_Witness ==
    /\ lastOp = "option" /\ phase = "ready"
    /\ \E o \in Current :
          /\ Timed(o) /\ selected[o] /\ timers[o] = 1
          /\ lastEvents = <<Event("option", o, TRUE, Scalar(OptionValue(o)))>>
          /\ ModelIsSelected(model, OptionValue(o))
          /\ ValueContains(model, OptionValue(o))

\* The last option of the collection that satisfies the condition.
LastOf(condition) ==
    LET os == SeqFilter(options, condition) IN os[Len(os)]

\* C23: in a single-selection container with discovered options (plain
\* template), selectAll with a condition that some option satisfies
\* returns after at most six emissions per selected option (the option's
\* own, the deselection of the option selected before with its two
\* notifications, and the two notifications of the new value) and leaves
\* exactly the last option satisfying the condition selected, with its
\* value as the container value.
C23_SelectAllSingle ==
    (phase = "ready" /\ ~modelMultiple /\ options # <<>> /\ PlainDistinct(Current))
    => \A condition \in SUBSET Opts :
          condition \cap Current # {}
          => LET S == SelectAll(Cur, condition)
                 last == LastOf(condition)
             IN  /\ {o \in Current : S.selected[o]} = {last}
                 /\ ContainerValue(S.model) = Scalar(OptionValue(last))
                 /\ Len(S.log) <= 6 * Cardinality(condition \cap Current)

\* The emissions so far that qualify: all of them without withCondition,
\* else those the predicate accepts.
Qualifying ==
    {i \in DOMAIN tap.seen : ~tap.given \/ tap.seen[i] \in tap.accepts}

\* C24: within one subscription that no error has ended, whenever no call
\* of fn is under way, fn has been called exactly once as soon as an
\* emission qualified, with the first qualifying payload, and not at all
\* before that; and downstream received every emission, unchanged and in
\* order.
C24_TapOnce ==
    (tap.running = <<>> /\ ~tap.closed) =>
        /\ tap.out = tap.seen
        /\ tap.called =
              IF Qualifying = {} THEN <<>>
              ELSE <<tap.seen[CHOOSE i \in Qualifying : \A j \in Qualifying : i <= j]>>

====
